---- MODULE Spec2Model ----
(***************************************************************************)
(* Model of the shared cache client (RedisCache), the rate limiter built   *)
(* on it (RateLimiter) and the response-validator Lambda entry point.      *)
(*                                                                         *)
(*   shared/cache_client.py   RedisCache, RateLimiter                      *)
(*   shared/utils.py          get_correlation_id, format_response          *)
(*   response-validator/src/handler.py   lambda_handler                    *)
(*                                                                         *)
(* The backing store is modelled as Redis behaves for the commands the     *)
(* client issues (GET, SETEX, DEL, INCRBY, EXPIRE): values are text, a key *)
(* carries a remaining time to live, and a clock tick ages every key.      *)
(***************************************************************************)
EXTENDS Integers, Sequences, FiniteSets, TLC

(***************************************************************************)
(* Bounds of the model.                                                    *)
(***************************************************************************)
NumThreads == 2
MaxRequests == 2
MaxWindow == 2
MaxCount == 4
MaxConnects == 3
MaxTtl == 2

Threads == 1..NumThreads

(***************************************************************************)
(* Text: sequences of one-character strings.                               *)
(***************************************************************************)
Digits == <<"0", "1", "2", "3", "4", "5", "6", "7", "8", "9">>

IsDigit(c) == \E d \in 1..Len(Digits) : Digits[d] = c

DigitVal(c) == (CHOOSE d \in 1..Len(Digits) : Digits[d] = c) - 1

RECURSIVE FormatNat(_)
FormatNat(n) ==
    IF n < Len(Digits) THEN <<Digits[n + 1]>>
    ELSE FormatNat(n \div Len(Digits)) \o <<Digits[(n % Len(Digits)) + 1]>>

\* str(int): the decimal text of an integer.
FormatInt(n) == IF n < 0 THEN <<"-">> \o FormatNat(-n) ELSE FormatNat(n)

RECURSIVE DigitsValue(_, _)
DigitsValue(s, acc) ==
    IF s = <<>> THEN acc
    ELSE DigitsValue(Tail(s), acc * Len(Digits) + DigitVal(Head(s)))

\* What Redis accepts as the integer value of a key for INCRBY.
IsIntText(s) ==
    LET body == IF s # <<>> /\ Head(s) = "-" THEN Tail(s) ELSE s
    IN  /\ body # <<>>
        /\ \A i \in 1..Len(body) : IsDigit(body[i])
        /\ (Len(body) > 1 => body[1] # "0")
        /\ ~(Len(s) > Len(body) /\ body = <<"0">>)

IntOfText(s) ==
    IF Head(s) = "-" THEN -DigitsValue(Tail(s), 0) ELSE DigitsValue(s, 0)

(***************************************************************************)
(* JSON values, Python side.  Python's None is JNull.                      *)
(***************************************************************************)
JNull == [t |-> "null", n |-> 0, s |-> <<>>, items |-> <<>>, keys |-> <<>>]
JBool(b) == [t |-> "bool", n |-> IF b THEN 1 ELSE 0, s |-> <<>>,
             items |-> <<>>, keys |-> <<>>]
JNum(i) == [t |-> "num", n |-> i, s |-> <<>>, items |-> <<>>, keys |-> <<>>]
JStr(chars) == [t |-> "str", n |-> 0, s |-> chars, items |-> <<>>, keys |-> <<>>]
JList(xs) == [t |-> "list", n |-> 0, s |-> <<>>, items |-> xs, keys |-> <<>>]
JObj(ks, xs) == [t |-> "obj", n |-> 0, s |-> <<>>, items |-> xs, keys |-> ks]

\* Python truthiness of a deserialized value (bool(v)).
Truthy(v) ==
    CASE v.t = "null" -> FALSE
      [] v.t = "bool" -> v.n = 1
      [] v.t = "num"  -> v.n # 0
      [] v.t = "str"  -> v.s # <<>>
      [] OTHER        -> v.items # <<>>

RECURSIVE EscapeStr(_)
EscapeStr(s) ==
    IF s = <<>> THEN <<>>
    ELSE (IF Head(s) \in {"\"", "\\"} THEN <<"\\", Head(s)>> ELSE <<Head(s)>>)
         \o EscapeStr(Tail(s))

DumpStr(s) == <<"\"">> \o EscapeStr(s) \o <<"\"">>

\* json.dumps(value, default=str) with the default separators ", " and ": ".
RECURSIVE dumps(_)
RECURSIVE DumpItems(_)
RECURSIVE DumpMembers(_, _)
DumpItems(xs) ==
    IF xs = <<>> THEN <<>>
    ELSE dumps(Head(xs))
         \o (IF Len(xs) > 1 THEN <<",", " ">> ELSE <<>>)
         \o DumpItems(Tail(xs))
DumpMembers(ks, xs) ==
    IF xs = <<>> THEN <<>>
    ELSE DumpStr(Head(ks)) \o <<":", " ">> \o dumps(Head(xs))
         \o (IF Len(xs) > 1 THEN <<",", " ">> ELSE <<>>)
         \o DumpMembers(Tail(ks), Tail(xs))
dumps(v) ==
    CASE v.t = "null" -> <<"n", "u", "l", "l">>
      [] v.t = "bool" -> IF v.n = 1 THEN <<"t", "r", "u", "e">>
                         ELSE <<"f", "a", "l", "s", "e">>
      [] v.t = "num"  -> FormatInt(v.n)
      [] v.t = "str"  -> DumpStr(v.s)
      [] v.t = "list" -> <<"[">> \o DumpItems(v.items) \o <<"]">>
      [] OTHER        -> <<"{">> \o DumpMembers(v.keys, v.items) \o <<"}">>

\* json.loads(text): a recursive-descent parse; ok = FALSE is JSONDecodeError.
ParseFail == [ok |-> FALSE, v |-> JNull, rest |-> <<>>]
ParseOk(v, rest) == [ok |-> TRUE, v |-> v, rest |-> rest]

RECURSIVE SkipWs(_)
SkipWs(s) == IF s # <<>> /\ Head(s) = " " THEN SkipWs(Tail(s)) ELSE s

StartsWith(s, p) == Len(s) >= Len(p) /\ SubSeq(s, 1, Len(p)) = p
Drop(s, k) == SubSeq(s, k + 1, Len(s))

RECURSIVE ParseStrBody(_, _)
ParseStrBody(s, acc) ==
    IF s = <<>> THEN ParseFail
    ELSE IF Head(s) = "\"" THEN ParseOk(JStr(acc), Tail(s))
    ELSE IF Head(s) = "\\"
         THEN IF Len(s) >= 2 /\ s[2] \in {"\"", "\\"}
              THEN ParseStrBody(Drop(s, 2), Append(acc, s[2]))
              ELSE ParseFail
    ELSE ParseStrBody(Tail(s), Append(acc, Head(s)))

RECURSIVE TakeDigits(_)
TakeDigits(s) ==
    IF s # <<>> /\ IsDigit(Head(s)) THEN <<Head(s)>> \o TakeDigits(Tail(s))
    ELSE <<>>

ParseNum(s) ==
    LET neg  == s # <<>> /\ Head(s) = "-"
        body == IF neg THEN Tail(s) ELSE s
        ds   == IF body # <<>> /\ Head(body) = "0" THEN <<"0">>
                ELSE TakeDigits(body)
        val  == DigitsValue(ds, 0)
    IN  IF ds = <<>> THEN ParseFail
        ELSE ParseOk(JNum(IF neg THEN -val ELSE val), Drop(body, Len(ds)))

RECURSIVE ParseValue(_)
RECURSIVE ParseElems(_, _)
RECURSIVE ParseMembers(_, _, _)
ParseElems(s, acc) ==
    LET r  == ParseValue(s)
        s2 == SkipWs(r.rest)
    IN  IF ~r.ok \/ s2 = <<>> THEN ParseFail
        ELSE IF Head(s2) = "," THEN ParseElems(Tail(s2), Append(acc, r.v))
        ELSE IF Head(s2) = "]" THEN ParseOk(JList(Append(acc, r.v)), Tail(s2))
        ELSE ParseFail
ParseMembers(s, ks, xs) ==
    LET s1 == SkipWs(s)
        k  == IF s1 # <<>> /\ Head(s1) = "\"" THEN ParseStrBody(Tail(s1), <<>>)
              ELSE ParseFail
        s2 == SkipWs(k.rest)
        r  == IF s2 # <<>> /\ Head(s2) = ":" THEN ParseValue(Tail(s2))
              ELSE ParseFail
        s3 == SkipWs(r.rest)
    IN  IF ~k.ok \/ ~r.ok \/ s3 = <<>> THEN ParseFail
        ELSE IF Head(s3) = ","
             THEN ParseMembers(Tail(s3), Append(ks, k.v.s), Append(xs, r.v))
        ELSE IF Head(s3) = "}"
             THEN ParseOk(JObj(Append(ks, k.v.s), Append(xs, r.v)), Tail(s3))
        ELSE ParseFail
ParseValue(s0) ==
    LET s == SkipWs(s0)
    IN  IF s = <<>> THEN ParseFail
        ELSE IF StartsWith(s, <<"n", "u", "l", "l">>) THEN ParseOk(JNull, Drop(s, 4))
        ELSE IF StartsWith(s, <<"t", "r", "u", "e">>)
             THEN ParseOk(JBool(TRUE), Drop(s, 4))
        ELSE IF StartsWith(s, <<"f", "a", "l", "s", "e">>)
             THEN ParseOk(JBool(FALSE), Drop(s, 5))
        ELSE IF Head(s) = "\"" THEN ParseStrBody(Tail(s), <<>>)
        ELSE IF Head(s) = "-" \/ IsDigit(Head(s)) THEN ParseNum(s)
        ELSE IF Head(s) = "["
             THEN (LET s1 == SkipWs(Tail(s))
                   IN  IF s1 # <<>> /\ Head(s1) = "]"
                       THEN ParseOk(JList(<<>>), Tail(s1))
                       ELSE ParseElems(s1, <<>>))
        ELSE IF Head(s) = "{"
             THEN (LET s1 == SkipWs(Tail(s))
                   IN  IF s1 # <<>> /\ Head(s1) = "}"
                       THEN ParseOk(JObj(<<>>, <<>>), Tail(s1))
                       ELSE ParseMembers(s1, <<>>, <<>>))
        ELSE ParseFail

loads(text) ==
    LET r == ParseValue(text)
    IN  IF r.ok /\ SkipWs(r.rest) = <<>> THEN r ELSE ParseFail

(***************************************************************************)
(* State.                                                                  *)
(***************************************************************************)
Identifiers == {"user-1"}
CacheKeys == {"session:1"}
RatelimitKey(identifier) == "ratelimit:" \o identifier
RatelimitKeys == {RatelimitKey(i) : i \in Identifiers}
Keys == CacheKeys \cup RatelimitKeys
Instances == 1..NumThreads

VARIABLES
    redis_available,  \* REDIS_AVAILABLE: the redis library could be imported
    cls_instance,     \* RedisCache._instance (0 is None)
    n_instances,      \* RedisCache objects allocated so far
    redis_client,     \* instance -> its _redis_client (0 is None, else the object)
    connects,         \* redis.Redis objects created so far (connection attempts)
    first_connect_failed, \* history: the first connection attempt failed
    handle,           \* thread -> the instance its last RedisCache() returned
    pc,               \* thread -> where it stands in the call it is making
    frame,            \* thread -> the locals of the call it is making
    backend_up,       \* the backend answers commands
    store,            \* the backend: key -> value text and remaining ttl
    last,             \* the call that returned last, with what it returned
    epoch,            \* history: per counter key, the calls since its creation
    expired,          \* history: per counter key, a counter has expired before
    written,          \* history: per cache key, the last value set and its age
    max_requests,     \* the limit callers pass to is_allowed
    window_seconds,   \* the window callers pass to is_allowed
    event,            \* the event lambda_handler is invoked with
    process_outcome,  \* what process_event does for this invocation
    response          \* what lambda_handler returned, or that it raised

vars == <<redis_available, cls_instance, n_instances, redis_client, connects,
          first_connect_failed, handle, pc, frame, backend_up, store, last, epoch, expired, written,
          max_requests, window_seconds, event, process_outcome, response>>

handleVars == <<redis_available, cls_instance, n_instances, redis_client,
                connects, first_connect_failed, handle>>
limiterVars == <<max_requests, window_seconds>>
lambdaVars == <<event, process_outcome, response>>

(***************************************************************************)
(* The backend, as Redis answers the commands the client sends.  A key's   *)
(* ttl is the time it has left; ttl = 0 on a present key is "no expiry".   *)
(***************************************************************************)
Absent == [present |-> FALSE, text |-> <<>>, ttl |-> 0]

Reply(err, st, val) == [err |-> err, store |-> st, val |-> val]

\* GET key: the text, or nil for a missing key.
RedisGet(st, key) ==
    Reply(FALSE, st, [nil |-> ~st[key].present, text |-> st[key].text])

\* Python truthiness of what redis-py's get returns (None or a str).
StrTruthy(reply) == ~reply.nil /\ reply.text # <<>>

\* SETEX key ttl text: Redis rejects a ttl that is not positive.
RedisSetex(st, key, ttl, text) ==
    IF ttl <= 0 THEN Reply(TRUE, st, 0)
    ELSE Reply(FALSE,
               [st EXCEPT ![key] = [present |-> TRUE, text |-> text, ttl |-> ttl]],
               0)

\* DEL key
RedisDelete(st, key) == Reply(FALSE, [st EXCEPT ![key] = Absent], 0)

\* INCRBY key amount: one atomic command; a missing key counts from 0 and is
\* created without expiry; an existing key keeps its ttl.
RedisIncr(st, key, amount) ==
    IF ~st[key].present
    THEN Reply(FALSE,
               [st EXCEPT ![key] = [present |-> TRUE, text |-> FormatInt(amount),
                                    ttl |-> 0]],
               amount)
    ELSE IF ~IsIntText(st[key].text) THEN Reply(TRUE, st, 0)
    ELSE LET value == IntOfText(st[key].text) + amount
         IN  Reply(FALSE, [st EXCEPT ![key].text = FormatInt(value)], value)

\* EXPIRE key ttl: no effect on a missing key; a ttl that is not positive
\* deletes the key.
RedisExpire(st, key, ttl) ==
    IF ~st[key].present THEN Reply(FALSE, st, 0)
    ELSE IF ttl <= 0 THEN Reply(FALSE, [st EXCEPT ![key] = Absent], 0)
    ELSE Reply(FALSE, [st EXCEPT ![key].ttl = ttl], 1)

\* One second passes: every key with an expiry loses one second, and is
\* removed when none is left.
AgeStore(st) ==
    [k \in Keys |->
        IF st[k].present /\ st[k].ttl > 0
        THEN IF st[k].ttl = 1 THEN Absent ELSE [st[k] EXCEPT !.ttl = @ - 1]
        ELSE st[k]]

(***************************************************************************)
(* Records of calls in flight and of the call that returned last.          *)
(***************************************************************************)
NoFrame == [op |-> "none", key |-> "", amount |-> 0, ttl |-> JNull, value |-> 0,
            fresh |-> FALSE, ord |-> 0, inst |-> 0]

NoWrite == [active |-> FALSE, v |-> JNull, ttl |-> 0, age |-> 0]

NoCall == [op |-> "none", key |-> "", ret |-> JNull, count |-> JNull,
           error |-> FALSE, disabled |-> FALSE, fresh |-> FALSE, ord |-> 0,
           clean |-> FALSE, seen |-> NoWrite]

NoEpoch == [calls |-> 0, allowed |-> 0, clean |-> TRUE, armed |-> FALSE,
            age |-> 0, window |-> 0]

Min(a, b) == IF a < b THEN a ELSE b
Abs(a) == IF a < 0 THEN -a ELSE a

(***************************************************************************)
(* History of a counter key: the is_allowed calls made on it since the     *)
(* INCRBY that created it.                                                 *)
(***************************************************************************)
\* An is_allowed call reaches its increment: ok says the INCRBY was executed.
EpochCall(ep, present, ok) ==
    IF ~present
    THEN IF ok THEN [NoEpoch EXCEPT !.calls = 1, !.window = window_seconds]
         ELSE ep
    ELSE [ep EXCEPT !.calls = Min(@ + 1, MaxCount + 1), !.clean = @ /\ ok]

\* An is_allowed call on an existing counter returns.
EpochReturn(ep, present, ret) ==
    IF present /\ ret = JBool(TRUE)
    THEN [ep EXCEPT !.allowed = Min(@ + 1, MaxCount + 1)]
    ELSE ep

EpochStep(key, op, present, ok, ret, returns) ==
    IF op = "is_allowed" /\ key \in RatelimitKeys
    THEN LET e1 == EpochCall(epoch[key], present, ok)
         IN  [epoch EXCEPT ![key] =
                 IF returns THEN EpochReturn(e1, present \/ ok, ret) ELSE e1]
    ELSE epoch

(***************************************************************************)
(* RateLimiter.is_allowed, after the increment returned current_count.     *)
(***************************************************************************)
\* Variants of the decision, as a slip in the comparison or in the fail-open
\* branch would make it.
is_allowed_result_strict(current_count, limit) ==
    IF current_count = JNull THEN TRUE ELSE current_count.n < limit

is_allowed_result_fail_closed(current_count, limit) ==
    IF current_count = JNull THEN FALSE ELSE current_count.n <= limit

is_allowed_result_one_more(current_count, limit) ==
    IF current_count = JNull THEN TRUE ELSE current_count.n <= limit + 1

is_allowed_result(current_count, limit) ==
    IF current_count = JNull THEN TRUE ELSE current_count.n <= limit

Returned(op, key, count, error, disabled, fresh, ord, clean) ==
    [op |-> op, key |-> key,
     ret |-> IF op = "is_allowed"
             THEN JBool(is_allowed_result(count, max_requests)) ELSE count,
     count |-> count, error |-> error, disabled |-> disabled, fresh |-> fresh,
     ord |-> ord, clean |-> clean, seen |-> NoWrite]

(***************************************************************************)
(* RedisCache.increment.  Its two backend commands are two steps, so that  *)
(* other callers' commands and the clock can fall between them.            *)
(***************************************************************************)
InCounterRange(key, amount) ==
    IF store[key].present /\ IsIntText(store[key].text)
    THEN Abs(IntOfText(store[key].text) + amount) <= MaxCount
    ELSE Abs(amount) <= MaxCount

\* Variant: the ttl is armed by every increment (a sliding window).
ArmsTtl_always(ttl, value, amount) == Truthy(ttl)

\* The ttl is armed when one is given and the new value equals the amount.
ArmsTtl(ttl, value, amount) == Truthy(ttl) /\ value = amount

increment_incr(t, op, key, amount, ttl) ==
    /\ pc[t] = "idle"
    /\ handle[t] # 0
    /\ InCounterRange(key, amount)
    /\ LET client  == redis_client[handle[t]]
           r       == RedisIncr(store, key, amount)
           present == store[key].present
           ok      == client # 0 /\ backend_up /\ ~r.err
           count   == IF ok THEN JNum(r.val) ELSE JNull
           arms    == ok /\ ArmsTtl(ttl, r.val, amount)
           ret     == JBool(is_allowed_result(count, max_requests))
           ep      == EpochStep(key, op, present, ok, ret, ~arms)
           ord     == IF op = "is_allowed" /\ key \in RatelimitKeys
                      THEN ep[key].calls ELSE 0
           clean   == IF op = "is_allowed" /\ key \in RatelimitKeys
                      THEN ep[key].clean /\ (present \/ ok) ELSE FALSE
       IN  /\ store' = IF ok THEN r.store ELSE store
           /\ epoch' = ep
           /\ written' = IF ok /\ key \in CacheKeys
                         THEN [written EXCEPT ![key] = NoWrite] ELSE written
           /\ IF arms
              THEN /\ pc' = [pc EXCEPT ![t] = "expire"]
                   /\ frame' = [frame EXCEPT ![t] =
                         [NoFrame EXCEPT !.op = op, !.key = key,
                                         !.amount = amount, !.ttl = ttl,
                                         !.value = r.val, !.fresh = ~present,
                                         !.ord = ord]]
                   /\ last' = last
              ELSE /\ pc' = pc
                   /\ frame' = frame
                   /\ last' = Returned(op, key, count, client # 0 /\ ~ok,
                                       client = 0, ok /\ ~present, ord, clean)
    /\ UNCHANGED <<handleVars, backend_up, expired, limiterVars, lambdaVars>>

increment_expire(t) ==
    /\ pc[t] = "expire"
    /\ LET f     == frame[t]
           r     == RedisExpire(store, f.key, f.ttl.n)
           ok    == backend_up /\ ~r.err
           count == IF ok THEN JNum(f.value) ELSE JNull
           ret   == JBool(is_allowed_result(count, max_requests))
           track == f.op = "is_allowed" /\ f.key \in RatelimitKeys
           ep    == IF track
                    THEN [epoch EXCEPT ![f.key] =
                            EpochReturn(
                                IF f.fresh
                                THEN [@ EXCEPT !.clean = @ /\ ok,
                                               !.armed = ok, !.age = 0]
                                ELSE [@ EXCEPT !.clean = @ /\ ok],
                                TRUE, ret)]
                    ELSE epoch
       IN  /\ store' = IF ok THEN r.store ELSE store
           /\ epoch' = ep
           /\ last' = Returned(f.op, f.key, count, ~ok, FALSE, f.fresh, f.ord,
                               track /\ ep[f.key].clean)
    /\ pc' = [pc EXCEPT ![t] = "idle"]
    /\ frame' = [frame EXCEPT ![t] = NoFrame]
    /\ UNCHANGED <<handleVars, backend_up, expired, written, limiterVars,
                   lambdaVars>>

\* RedisCache.increment(key, amount, ttl) called directly.
increment(t, key, amount, ttl) == increment_incr(t, "increment", key, amount, ttl)

\* RateLimiter.is_allowed(identifier, max_requests, window_seconds).
is_allowed(t, identifier) ==
    increment_incr(t, "is_allowed", RatelimitKey(identifier), 1,
                   JNum(window_seconds))

(***************************************************************************)
(* RedisCache(): __new__, then __init__ on what __new__ returned, then     *)
(* _connect.  Each read or write of shared state is a step of its own, so  *)
(* that threads constructing at once interleave as the interpreter lets    *)
(* them.                                                                   *)
(***************************************************************************)
otherVars == <<backend_up, store, last, epoch, expired, written, limiterVars,
               lambdaVars>>

\* __new__: if cls._instance is None
new_check(t) ==
    /\ pc[t] = "idle"
    /\ pc' = [pc EXCEPT ![t] = IF cls_instance = 0 THEN "new_create"
                               ELSE "new_return"]
    /\ UNCHANGED <<handleVars, frame, otherVars>>

\* __new__: cls._instance = super().__new__(cls)
new_create(t) ==
    /\ pc[t] = "new_create"
    /\ n_instances' = n_instances + 1
    /\ cls_instance' = n_instances + 1
    /\ pc' = [pc EXCEPT ![t] = "new_return"]
    /\ UNCHANGED <<redis_available, redis_client, connects,
                   first_connect_failed, handle, frame, otherVars>>

\* __new__: return cls._instance
new_return(t) ==
    /\ pc[t] = "new_return"
    /\ frame' = [frame EXCEPT ![t] = [NoFrame EXCEPT !.op = "RedisCache",
                                                    !.inst = cls_instance]]
    /\ pc' = [pc EXCEPT ![t] = "init"]
    /\ UNCHANGED <<handleVars, otherVars>>

\* __init__: return at once without the library; else connect if the instance
\* has no client.
init(t) ==
    /\ pc[t] = "init"
    /\ IF redis_available /\ redis_client[frame[t].inst] = 0
       THEN /\ pc' = [pc EXCEPT ![t] = "connect"]
            /\ UNCHANGED <<frame, handle>>
       ELSE /\ pc' = [pc EXCEPT ![t] = "idle"]
            /\ handle' = [handle EXCEPT ![t] = frame[t].inst]
            /\ frame' = [frame EXCEPT ![t] = NoFrame]
    /\ UNCHANGED <<redis_available, cls_instance, n_instances, redis_client,
                   connects, first_connect_failed, otherVars>>

\* _connect: self._redis_client = redis.Redis(...)
connect_create(t) ==
    /\ pc[t] = "connect"
    /\ connects < MaxConnects
    /\ connects' = connects + 1
    /\ redis_client' = [redis_client EXCEPT ![frame[t].inst] = connects + 1]
    /\ pc' = [pc EXCEPT ![t] = "ping"]
    /\ UNCHANGED <<redis_available, cls_instance, n_instances,
                   first_connect_failed, handle, frame, otherVars>>

\* _connect: self._redis_client.ping(); on any exception the client is set to
\* None.  Then __init__ and RedisCache() return.
connect_ping(t) ==
    /\ pc[t] = "ping"
    /\ LET inst == frame[t].inst
           ok   == backend_up /\ redis_client[inst] # 0
       IN  /\ redis_client' = IF ok THEN redis_client
                              ELSE [redis_client EXCEPT ![inst] = 0]
           /\ first_connect_failed' =
                 (first_connect_failed \/ (~ok /\ connects = 1))
           /\ handle' = [handle EXCEPT ![t] = inst]
    /\ pc' = [pc EXCEPT ![t] = "idle"]
    /\ frame' = [frame EXCEPT ![t] = NoFrame]
    /\ UNCHANGED <<redis_available, cls_instance, n_instances, connects,
                   otherVars>>

(***************************************************************************)
(* RedisCache.get, set and delete: one backend command each.               *)
(***************************************************************************)
\* A write by set or delete to a counter key ends what is known of its calls.
EpochTouched(key, ok) ==
    IF ok /\ key \in RatelimitKeys
    THEN [epoch EXCEPT ![key].clean = FALSE] ELSE epoch

\* Variant: a get on a disabled handle connects again before giving up.
get_reconnects(t, key) ==
    /\ pc[t] = "idle"
    /\ handle[t] # 0
    /\ LET inst   == handle[t]
           client == redis_client[inst]
           again  == client = 0 /\ redis_available /\ connects < MaxConnects
           r      == RedisGet(store, key)
           sent   == client # 0 /\ backend_up
           parsed == loads(r.val.text)
           found  == sent /\ StrTruthy(r.val)
       IN  /\ connects' = IF again THEN connects + 1 ELSE connects
           /\ redis_client' = IF again /\ backend_up
                              THEN [redis_client EXCEPT ![inst] = connects + 1]
                              ELSE redis_client
           /\ last' = [NoCall EXCEPT
                         !.op = "get", !.key = key,
                         !.ret = IF found /\ parsed.ok THEN parsed.v ELSE JNull,
                         !.error = client # 0 /\ (~sent \/ (found /\ ~parsed.ok)),
                         !.disabled = client = 0,
                         !.seen = IF key \in CacheKeys THEN written[key]
                                  ELSE NoWrite]
    /\ UNCHANGED <<redis_available, cls_instance, n_instances,
                   first_connect_failed, handle, pc, frame, backend_up, store,
                   epoch, expired, written, limiterVars, lambdaVars>>

\* Variant: the emptiness test made on the deserialized value, not the text.
get_tests_loaded_value(t, key) ==
    /\ pc[t] = "idle"
    /\ handle[t] # 0
    /\ LET client == redis_client[handle[t]]
           r      == RedisGet(store, key)
           sent   == client # 0 /\ backend_up
           parsed == loads(r.val.text)
           found  == sent /\ ~r.val.nil /\ parsed.ok /\ Truthy(parsed.v)
       IN  last' = [NoCall EXCEPT
                      !.op = "get", !.key = key,
                      !.ret = IF found THEN parsed.v ELSE JNull,
                      !.error = client # 0 /\ ~sent,
                      !.disabled = client = 0,
                      !.seen = IF key \in CacheKeys THEN written[key]
                               ELSE NoWrite]
    /\ UNCHANGED <<handleVars, pc, frame, backend_up, store, epoch, expired,
                   written, limiterVars, lambdaVars>>

get(t, key) ==
    /\ pc[t] = "idle"
    /\ handle[t] # 0
    /\ LET client == redis_client[handle[t]]
           r      == RedisGet(store, key)
           sent   == client # 0 /\ backend_up
           parsed == loads(r.val.text)
           found  == sent /\ StrTruthy(r.val)
       IN  last' = [NoCall EXCEPT
                      !.op = "get", !.key = key,
                      !.ret = IF found /\ parsed.ok THEN parsed.v ELSE JNull,
                      !.error = client # 0 /\ (~sent \/ (found /\ ~parsed.ok)),
                      !.disabled = client = 0,
                      !.seen = IF key \in CacheKeys THEN written[key]
                               ELSE NoWrite]
    /\ UNCHANGED <<handleVars, pc, frame, backend_up, store, epoch, expired,
                   written, limiterVars, lambdaVars>>

set(t, key, value, ttl) ==
    /\ pc[t] = "idle"
    /\ handle[t] # 0
    /\ LET client     == redis_client[handle[t]]
           serialized == dumps(value)
           r          == RedisSetex(store, key, ttl, serialized)
           ok         == client # 0 /\ backend_up /\ ~r.err
       IN  /\ store' = IF ok THEN r.store ELSE store
           /\ written' = IF ok /\ key \in CacheKeys
                         THEN [written EXCEPT ![key] =
                                 [active |-> TRUE, v |-> value, ttl |-> ttl,
                                  age |-> 0]]
                         ELSE written
           /\ epoch' = EpochTouched(key, ok)
           /\ last' = [NoCall EXCEPT !.op = "set", !.key = key,
                                     !.ret = JBool(ok),
                                     !.error = client # 0 /\ ~ok,
                                     !.disabled = client = 0]
    /\ UNCHANGED <<handleVars, pc, frame, backend_up, expired, limiterVars,
                   lambdaVars>>

\* Variant: the error handler reports success.
delete_reports_success(t, key) ==
    /\ pc[t] = "idle"
    /\ handle[t] # 0
    /\ LET client == redis_client[handle[t]]
           r      == RedisDelete(store, key)
           ok     == client # 0 /\ backend_up /\ ~r.err
       IN  /\ store' = IF ok THEN r.store ELSE store
           /\ written' = IF ok /\ key \in CacheKeys
                         THEN [written EXCEPT ![key] = NoWrite] ELSE written
           /\ epoch' = EpochTouched(key, ok)
           /\ last' = [NoCall EXCEPT !.op = "delete", !.key = key,
                                     !.ret = JBool(client # 0),
                                     !.error = client # 0 /\ ~ok,
                                     !.disabled = client = 0]
    /\ UNCHANGED <<handleVars, pc, frame, backend_up, expired, limiterVars,
                   lambdaVars>>

delete(t, key) ==
    /\ pc[t] = "idle"
    /\ handle[t] # 0
    /\ LET client == redis_client[handle[t]]
           r      == RedisDelete(store, key)
           ok     == client # 0 /\ backend_up /\ ~r.err
       IN  /\ store' = IF ok THEN r.store ELSE store
           /\ written' = IF ok /\ key \in CacheKeys
                         THEN [written EXCEPT ![key] = NoWrite] ELSE written
           /\ epoch' = EpochTouched(key, ok)
           /\ last' = [NoCall EXCEPT !.op = "delete", !.key = key,
                                     !.ret = JBool(ok),
                                     !.error = client # 0 /\ ~ok,
                                     !.disabled = client = 0]
    /\ UNCHANGED <<handleVars, pc, frame, backend_up, expired, limiterVars,
                   lambdaVars>>

(***************************************************************************)
(* The environment: the clock and the backend's availability.              *)
(***************************************************************************)
Tick ==
    /\ \E k \in Keys : store[k].present /\ store[k].ttl > 0
    /\ store' = AgeStore(store)
    /\ epoch' = [k \in RatelimitKeys |->
                    IF ~store'[k].present THEN NoEpoch
                    ELSE IF epoch[k].armed
                         THEN [epoch[k] EXCEPT !.age = Min(@ + 1, MaxWindow + 1)]
                    ELSE epoch[k]]
    /\ expired' = [k \in RatelimitKeys |->
                    expired[k] \/ (store[k].present /\ ~store'[k].present)]
    /\ written' = [k \in CacheKeys |->
                    IF written[k].active
                    THEN [written[k] EXCEPT !.age = Min(@ + 1, written[k].ttl)]
                    ELSE written[k]]
    /\ UNCHANGED <<handleVars, pc, frame, backend_up, last, limiterVars,
                   lambdaVars>>

BackendFail ==
    /\ backend_up
    /\ backend_up' = FALSE
    /\ UNCHANGED <<handleVars, pc, frame, store, last, epoch, expired, written,
                   limiterVars, lambdaVars>>

BackendRecover ==
    /\ ~backend_up
    /\ backend_up' = TRUE
    /\ UNCHANGED <<handleVars, pc, frame, store, last, epoch, expired, written,
                   limiterVars, lambdaVars>>

(***************************************************************************)
(* Initial states.                                                         *)
(***************************************************************************)
NoEvent == [requestContext |-> "absent", headers |-> "absent", body |-> "absent"]
NoResponse == [done |-> FALSE, raised |-> "", statusCode |-> 0, body |-> <<>>]

InitCommon ==
    /\ backend_up \in BOOLEAN
    /\ pc = [t \in Threads |-> "idle"]
    /\ frame = [t \in Threads |-> NoFrame]
    /\ store = [k \in Keys |-> Absent]
    /\ last = NoCall
    /\ epoch = [k \in RatelimitKeys |-> NoEpoch]
    /\ expired = [k \in RatelimitKeys |-> FALSE]
    /\ written = [k \in CacheKeys |-> NoWrite]

\* The process after its first RedisCache() returned: one instance, connected
\* if the library is there and the backend answered the ping.
InitConstructed ==
    /\ redis_available \in BOOLEAN
    /\ cls_instance = 1
    /\ n_instances = 1
    /\ redis_client = [i \in Instances |->
                        IF i = 1 /\ redis_available /\ backend_up THEN 1 ELSE 0]
    /\ connects = IF redis_available THEN 1 ELSE 0
    /\ first_connect_failed = (redis_available /\ ~backend_up)
    /\ handle = [t \in Threads |-> 1]

InitNoLambda ==
    /\ event = NoEvent
    /\ process_outcome = "ok"
    /\ response = NoResponse

Init ==
    /\ InitCommon
    /\ InitConstructed
    /\ max_requests \in 0..MaxRequests
    /\ window_seconds \in 0..MaxWindow
    /\ InitNoLambda

Next ==
    \/ \E t \in Threads, i \in Identifiers : is_allowed(t, i)
    \/ \E t \in Threads : increment_expire(t)
    \/ Tick
    \/ BackendFail
    \/ BackendRecover

Spec == Init /\ [][Next]_vars

(***************************************************************************)
(* The cache operations called one after another by one caller, on a cache *)
(* key, with values, amounts and ttls from small sets.                     *)
(***************************************************************************)
JsonValues ==
    {JNull, JBool(FALSE), JBool(TRUE), JNum(0), JNum(1), JNum(-1), JNum(10),
     JStr(<<>>), JStr(<<"a">>), JStr(<<"\"", "\\">>), JStr(<<"0">>),
     JList(<<>>), JObj(<<>>, <<>>),
     JList(<<JNum(0)>>), JList(<<JNull, JStr(<<>>)>>),
     JObj(<<<<"a">>>>, <<JList(<<>>)>>),
     JObj(<<<<"a">>, <<"b c">>>>, <<JBool(FALSE), JNum(1)>>)}

Amounts == {-1, 0, 1, 2}
SetTtls == 0..MaxTtl
GivenTtls == {JNum(n) : n \in 1..MaxTtl}
IncrTtls == {JNull, JNum(0)} \cup GivenTtls

InitCache ==
    /\ InitCommon
    /\ InitConstructed
    /\ max_requests = MaxRequests
    /\ window_seconds = MaxWindow
    /\ InitNoLambda

NextCache ==
    \/ \E k \in CacheKeys : get(1, k)
    \/ \E k \in CacheKeys, v \in JsonValues, ttl \in SetTtls : set(1, k, v, ttl)
    \/ \E k \in CacheKeys : delete(1, k)
    \/ \E k \in CacheKeys, a \in Amounts, ttl \in IncrTtls : increment(1, k, a, ttl)
    \/ increment_expire(1)
    \/ Tick
    \/ BackendFail
    \/ BackendRecover

SpecCache == InitCache /\ [][NextCache]_vars

(***************************************************************************)
(* RedisCache.increment alone: one caller, an enabled handle, a backend    *)
(* that answers every command, a ttl given with every call.                *)
(***************************************************************************)
InitCounter ==
    /\ InitCache
    /\ redis_available
    /\ backend_up

NextCounter ==
    \/ \E k \in CacheKeys, a \in Amounts, ttl \in GivenTtls : increment(1, k, a, ttl)
    \/ increment_expire(1)
    \/ Tick

SpecCounter == InitCounter /\ [][NextCounter]_vars

(***************************************************************************)
(* Construction.  SpecHandle: threads obtain the handle concurrently in a  *)
(* process that has not constructed it yet.  SpecInit: one caller obtains  *)
(* the handle, uses it, and obtains it again.                              *)
(***************************************************************************)
InitUnconstructed ==
    /\ InitCommon
    /\ redis_available \in BOOLEAN
    /\ cls_instance = 0
    /\ n_instances = 0
    /\ redis_client = [i \in Instances |-> 0]
    /\ connects = 0
    /\ first_connect_failed = FALSE
    /\ handle = [t \in Threads |-> 0]
    /\ max_requests = MaxRequests
    /\ window_seconds = MaxWindow
    /\ InitNoLambda

RedisCache(t) ==
    \/ new_check(t)
    \/ new_create(t)
    \/ new_return(t)
    \/ init(t)
    \/ connect_create(t)
    \/ connect_ping(t)

NextHandle ==
    \/ \E t \in Threads : RedisCache(t)
    \/ BackendFail
    \/ BackendRecover

SpecHandle == InitUnconstructed /\ [][NextHandle]_vars

NextInit ==
    \/ RedisCache(1)
    \/ \E k \in CacheKeys : get(1, k)
    \/ \E k \in CacheKeys : set(1, k, JNum(1), MaxTtl)
    \/ \E k \in CacheKeys : delete(1, k)
    \/ \E k \in CacheKeys : increment(1, k, 1, JNum(MaxTtl))
    \/ \E i \in Identifiers : is_allowed(1, i)
    \/ increment_expire(1)
    \/ BackendFail
    \/ BackendRecover

SpecInit == InitUnconstructed /\ [][NextInit]_vars

(***************************************************************************)
(* The response-validator entry point.  An event is a dict; what matters   *)
(* of it is which of its keys are present and whether their values are     *)
(* dicts or null.  A string is kept as one token of text.                  *)
(***************************************************************************)
RequestContexts == {"absent", "null", "with_requestId", "without_requestId"}
HeaderShapes == {"absent", "null", "empty", "x-correlation-id", "x-request-id",
                 "both"}
BodyShapes == {"absent", "present"}
Events == [requestContext : RequestContexts, headers : HeaderShapes,
           body : BodyShapes]
Outcomes == {"ok", "LambdaError", "Exception"}

JText(token) == JStr(IF token = "" THEN <<>> ELSE <<token>>)

\* bool(event) for a dict: it has a key.
EventTruthy(ev) ==
    ev.requestContext # "absent" \/ ev.headers # "absent" \/ ev.body # "absent"

Value(v) == [raised |-> "", value |-> v]
Raise(exc) == [raised |-> exc, value |-> ""]

\* shared.utils.get_correlation_id: .get is called on whatever the key holds.
get_correlation_id(ev) ==
    IF ev.requestContext # "absent"
    THEN CASE ev.requestContext = "null" -> Raise("AttributeError")
           [] ev.requestContext = "with_requestId" -> Value("test-request-id")
           [] OTHER -> Value("")
    ELSE CASE ev.headers = "null" -> Raise("AttributeError")
           [] ev.headers = "x-correlation-id" -> Value("test-correlation-id")
           [] ev.headers = "both" -> Value("test-correlation-id")
           [] ev.headers = "x-request-id" -> Value("test-header-request-id")
           [] OTHER -> Value("")

\* validate_event: raises ValidationError for an empty event.
validate_event(ev) ==
    IF ~EventTruthy(ev) THEN Raise("ValidationError") ELSE Value("")

\* process_event: the stub's result, or the exception this invocation's
\* processing raises.
process_event(ev, outcome) ==
    IF outcome = "ok" THEN Value("") ELSE Raise(outcome)

ProcessResult ==
    JObj(<<<<"function">>, <<"request_id">>, <<"remaining_time_ms">>>>,
         <<JText("response-validator"), JText("test-request-id"), JNum(30000)>>)

\* shared.utils.format_response, without the headers.
format_response(status_code, body) ==
    [done |-> TRUE, raised |-> "", statusCode |-> status_code,
     body |-> dumps(body)]

ErrorBody(error, message, correlation_id) ==
    JObj(<<<<"error">>, <<"message">>, <<"correlation_id">>>>,
         <<JText(error), JText(message), JText(correlation_id)>>)

lambda_handler(ev, outcome) ==
    LET cid == get_correlation_id(ev)
        v   == validate_event(ev)
        p   == process_event(ev, outcome)
    IN  IF cid.raised # ""
        THEN [NoResponse EXCEPT !.done = TRUE, !.raised = cid.raised]
        ELSE IF v.raised # ""
        THEN format_response(400, ErrorBody("ValidationError",
                                            "Event cannot be empty", cid.value))
        ELSE IF p.raised = "LambdaError"
        THEN format_response(500, ErrorBody("LambdaError", "processing failed",
                                            cid.value))
        ELSE IF p.raised # ""
        THEN format_response(500, ErrorBody("InternalServerError",
                                            "An unexpected error occurred",
                                            cid.value))
        ELSE format_response(200,
                 JObj(<<<<"message">>, <<"data">>, <<"correlation_id">>>>,
                      <<JText("Success"), ProcessResult, JText(cid.value)>>))

Invoke(ev, outcome) ==
    /\ event' = ev
    /\ process_outcome' = outcome
    /\ response' = lambda_handler(ev, outcome)
    /\ UNCHANGED <<handleVars, pc, frame, backend_up, store, last, epoch,
                   expired, written, limiterVars>>

InitLambda ==
    /\ InitCache
    /\ redis_available
    /\ backend_up

NextLambda == \E ev \in Events, outcome \in Outcomes : Invoke(ev, outcome)

SpecLambda == InitLambda /\ [][NextLambda]_vars

(***************************************************************************)
(* Claims about the rate limiter, checked under Spec.                      *)
(***************************************************************************)
LastAllowedCleanly ==
    /\ last.op = "is_allowed"
    /\ last.clean
    /\ ~last.error
    /\ ~last.disabled

\* C1: with the backend reachable, the k-th is_allowed call made on an
\* identifier since its counter was created (and before it expires) returns
\* true exactly when k <= max_requests: true for the first N calls, false for
\* call N+1 and every later one.
C1_FirstNAllowedThenDenied ==
    LastAllowedCleanly => last.ret = JBool(last.ord <= max_requests)

C1_Witness ==
    /\ LastAllowedCleanly
    /\ max_requests >= 1
    /\ last.ord = max_requests + 1
    /\ last.ret = JBool(FALSE)

\* C2: fail-open: an is_allowed call whose increment yields no result (the
\* handle is disabled, or the backend raised during the call) returns true,
\* whatever happened before.
C2_FailOpen ==
    (last.op = "is_allowed" /\ (last.disabled \/ last.error))
        => last.ret = JBool(TRUE)

\* The identifier had already been denied in this window (its counter is
\* above the limit) when the backend went away and the call was allowed.
C2_Witness ==
    /\ last.op = "is_allowed"
    /\ last.error
    /\ last.ret = JBool(TRUE)
    /\ store[last.key].present
    /\ IntOfText(store[last.key].text) > max_requests

ExpireInFlight(k) == \E t \in Threads : pc[t] = "expire" /\ frame[t].key = k

C10_AtMostNAllowedPerEpoch ==
    \A k \in RatelimitKeys :
        (store[k].present /\ epoch[k].clean) => epoch[k].allowed <= max_requests

\* The creating call returned last, after other callers' increments had
\* already run past the limit.
C10_Witness ==
    \E k \in RatelimitKeys :
        /\ store[k].present
        /\ epoch[k].clean
        /\ max_requests >= 1
        /\ epoch[k].allowed = max_requests
        /\ epoch[k].calls > max_requests
        /\ last.op = "is_allowed"
        /\ last.key = k
        /\ last.fresh

\* C11: no immortal counter: after any sequence of is_allowed calls with
\* window_seconds >= 0, in which the incr or the following expire may fail,
\* a counter key that exists in the backend while no call on it is in flight
\* has an expiry armed (so that a denied identifier is allowed again once
\* the key expires).
C11_NoImmortalCounter ==
    \A k \in RatelimitKeys :
        (store[k].present /\ ~ExpireInFlight(k)) => store[k].ttl > 0

(***************************************************************************)
(* Claims about the cache operations.                                      *)
(***************************************************************************)
\* C3: in a sequence of increment calls on one key, with the backend
\* reachable, an increment that found the key existing leaves its expiry as
\* it was: only the increment that creates the counter arms the ttl.
\* (Checked under SpecCounter.)
C3_TtlArmedOnlyOnCreation ==
    [][\A t \in Threads :
          (pc[t] = "expire" /\ pc'[t] = "idle" /\ ~frame[t].fresh)
              => store'[frame[t].key].ttl = store[frame[t].key].ttl]_vars

Sentinel(op) ==
    CASE op = "get"       -> JNull
      [] op = "set"       -> JBool(FALSE)
      [] op = "delete"    -> JBool(FALSE)
      [] op = "increment" -> JNull
      [] OTHER            -> JNull

\* C6: a get, set, delete or increment during which the backend raised
\* returns its sentinel (None / False / False / None), and no such call
\* changes the handle's connection.  (Checked under SpecCache.)
C6_ErrorsAbsorbed ==
    /\ [](last.error => last.ret = Sentinel(last.op))
    /\ [][redis_client' = redis_client]_vars

\* A call failed, the backend is healthy again and the handle is still
\* enabled.
C6_Witness ==
    /\ last.error
    /\ last.op = "delete"
    /\ last.ret = JBool(FALSE)
    /\ backend_up
    /\ redis_client[handle[1]] # 0

\* C7: round trip: after set(key, v, ttl) returned true, a get(key) that
\* reaches the backend returns v while less than ttl seconds have passed, and
\* None once ttl seconds have passed.  (Checked under SpecCache.)
C7_RoundTrip ==
    (last.op = "get" /\ ~last.error /\ ~last.disabled /\ last.seen.active)
        => last.ret = IF last.seen.age < last.seen.ttl THEN last.seen.v
                      ELSE JNull

\* A value that Python counts as false, other than None, came back.
C7_Witness ==
    /\ last.op = "get"
    /\ last.seen.active
    /\ last.seen.age < last.seen.ttl
    /\ last.seen.age > 0
    /\ ~Truthy(last.seen.v)
    /\ last.seen.v # JNull
    /\ last.ret = last.seen.v

(***************************************************************************)
(* Claims about the handle.                                                *)
(***************************************************************************)
\* C4, as stated: once the first connection attempt has failed, no step of
\* the process attempts a connection and every instance's client stays None.
\* (Checked under SpecInit.)
C4_DisabledForever ==
    [][first_connect_failed
          => /\ connects' = connects
             /\ \A i \in Instances : redis_client'[i] = 0]_vars

ConnectStep ==
    \E t \in Threads : pc[t] \in {"connect", "ping"} /\ pc'[t] # pc[t]

\* C4, amended: get, set, delete, increment and is_allowed never attempt a
\* connection and never change the client, so a handle whose connection
\* attempt failed stays disabled through all of them; only the _connect of a
\* RedisCache() call does, and __init__ runs it exactly when the library is
\* there and the instance has no client.  Without the library no attempt is
\* ever made.  (Checked under SpecInit.)
C4_OnlyRedisCacheReconnects ==
    /\ [](~redis_available => connects = 0)
    /\ [][(connects' # connects \/ redis_client' # redis_client)
             => ConnectStep]_vars
    /\ [][\A t \in Threads :
             (pc[t] = "init" /\ pc'[t] # "init")
                 => ((pc'[t] = "connect")
                       <=> (redis_available
                              /\ redis_client[frame[t].inst] = 0))]_vars

\* The first attempt failed, operations ran on the disabled handle, a later
\* RedisCache() connected, and a get then returned a cached value.
C4_Witness ==
    /\ first_connect_failed
    /\ connects = 2
    /\ redis_client[handle[1]] = 2
    /\ last.op = "get"
    /\ last.ret # JNull

LiveConnections == {redis_client[i] : i \in Instances} \ {0}

\* C5: every RedisCache() call returns the same instance and at most one
\* connection object is live, also when threads obtain the handle at once.
\* (Checked under SpecHandle.)
C5_Singleton ==
    /\ \A t1, t2 \in Threads :
          (handle[t1] # 0 /\ handle[t2] # 0) => handle[t1] = handle[t2]
    /\ Cardinality(LiveConnections) <= 1

(***************************************************************************)
(* Claims about lambda_handler.                                            *)
(***************************************************************************)
JHas(obj, key) == \E i \in 1..Len(obj.keys) : obj.keys[i] = <<key>>
JGet(obj, key) == obj.items[CHOOSE i \in 1..Len(obj.keys) : obj.keys[i] = <<key>>]

ResponseBody == loads(response.body).v

\* C9: every invocation returns a response and raises nothing: 400 with error
\* "ValidationError" for an empty event, 500 with error "InternalServerError"
\* when processing raises something that is no LambdaError, 200 with message
\* "Success" and a correlation_id when processing succeeds, whatever the
\* event's requestContext and headers are (present, absent or null).
\* (Checked under SpecLambda.)
C9_AlwaysResponds ==
    response.done
        => /\ response.raised = ""
           /\ loads(response.body).ok
           /\ ~EventTruthy(event)
                => /\ response.statusCode = 400
                   /\ JGet(ResponseBody, "error") = JText("ValidationError")
           /\ (EventTruthy(event) /\ process_outcome = "Exception")
                => /\ response.statusCode = 500
                   /\ JGet(ResponseBody, "error") = JText("InternalServerError")
           /\ (EventTruthy(event) /\ process_outcome = "ok")
                => /\ response.statusCode = 200
                   /\ JGet(ResponseBody, "message") = JText("Success")
                   /\ JHas(ResponseBody, "correlation_id")
====
